---- MODULE Spec2Model ----
(***************************************************************************)
(* Authentication / session core of gearbox/apex: registration, login,     *)
(* refresh-token rotation with family-based reuse detection, logout,       *)
(* logout-all, password change, account deactivation and expired-token     *)
(* cleanup, over the user / refresh-token store.                           *)
(*                                                                         *)
(* Spec      : every request is one unit of work run to completion.        *)
(* SpecConc  : refresh requests run as interleaved units of work against   *)
(*             the store (READ COMMITTED statements, row locks, commit or  *)
(*             rollback at the end of the request).                        *)
(***************************************************************************)
EXTENDS Integers, Sequences, FiniteSets, TLC

\* ---------------------------------------------------------------- bounds
MaxUsers == 2
MaxTokens == 3
MaxTime == 1
MaxReqs == 2
\* JWTConfig.refresh_token_expire_days in clock steps of the model: a token
\* issued at step s carries expires_at = s + RefreshLifetime and is expired
\* from step s + RefreshLifetime + 1 on
RefreshLifetime == 0

\* ------------------------------------------------------------ input sets
Emails == {"a", "A", "b"}
Passwords == {"p", "q"}
UserIds == 1..MaxUsers
\* the refresh requests that run as separate, interleaved units of work
Reqs == 1..MaxReqs
\* raw refresh-token strings: 0 is a string that was never issued
ForgedToken == 0
RawTokens == 0..MaxTokens

\* update_profile called with email=None
NoEmail == "None"

NoRow == [id |-> 0]
NoFamily == 0

VARIABLES
    users,          \* committed rows of table users
    tokens,         \* committed rows of table refresh_tokens
    issued,         \* number of refresh tokens generated so far
    now,            \* the clock, datetime.now(timezone.utc)
    last,           \* the request that finished last and what it returned
    accepted,       \* history: the refreshes that returned a pair, [token, successor]
    loggedOut,      \* history: raw tokens that were valid when logout_all ran
    logoutTokens,   \* history: raw tokens for which logout returned true
    reuseFamilies,  \* history: families for which TokenReuseDetected was raised
    tx,             \* per interleaved refresh request: its position and its session
    refresh_token_expire_days   \* JWTConfig.refresh_token_expire_days of this run

vars == <<users, tokens, issued, now, last, accepted, loggedOut, logoutTokens, reuseFamilies, tx,
         refresh_token_expire_days>>

\* ------------------------------------------------- security/password.py
\* str.lower() on the email alphabet of the model
lower(e) == IF e = "A" THEN "a" ELSE e

\* hashlib.sha256(token).hexdigest(): one-way, injective on the model's tokens
hash_token(t) == <<"sha256", t>>

\* PasswordHasher.hash: the encoded hash carries the cost parameters
password_hash(p) == [argon2id |-> p, params |-> "current"]

password_verify(h, p) == h.argon2id = p

needs_rehash(h) == h.params # "current"

\* ------------------------------------------------------ security/jwt.py
\* JWTConfig.secret_key
SecretKey == "secret_key"

\* JWTConfig.access_token_expire_minutes in clock steps of the model
AccessLifetime == 1

\* decode_access_token returns None
NoPayload == [sub |-> 0]

\* jwt.encode(payload, secret_key): the claims and the key that signed them
create_access_token(user_id, jti, t) ==
    [sub |-> user_id, exp |-> t + AccessLifetime, iat |-> t, jti |-> jti,
     type |-> "access", key |-> SecretKey]

\* create_access_token of a JWTService configured with
\* access_token_expire_minutes = expire
create_access_token_with(user_id, jti, t, expire) ==
    [create_access_token(user_id, jti, t) EXCEPT !.exp = t + expire]

\* the values of access_token_expire_minutes the model configures
ExpireMinutes == {-1, 0, AccessLifetime}

decode_access_token_no_expiry(token, t) ==
    IF token.key # SecretKey \/ token.iat > t \/ token.type # "access"
    THEN NoPayload
    ELSE [sub |-> token.sub, exp |-> token.exp, iat |-> token.iat, jti |-> token.jti,
          type |-> token.type]

decode_access_token_needs_session(token, t) ==
    IF token.key # SecretKey \/ ~(token.exp > t) \/ token.iat > t
       \/ token.type # "access"
       \/ \A r \in tokens : r.user_id = token.sub => r.is_revoked
    THEN NoPayload
    ELSE [sub |-> token.sub, exp |-> token.exp, iat |-> token.iat, jti |-> token.jti,
          type |-> token.type]

\* jwt.decode checks the signature, then exp and iat against the clock; the
\* type claim is checked after it
decode_access_token(token, t) ==
    IF token.key # SecretKey THEN NoPayload
    ELSE IF ~(token.exp > t) THEN NoPayload
    ELSE IF token.iat > t THEN NoPayload
    ELSE IF token.type # "access" THEN NoPayload
    ELSE [sub |-> token.sub, exp |-> token.exp, iat |-> token.iat, jti |-> token.jti,
          type |-> token.type]

\* --------------------------------------------- db/repositories/user.py
Ids(T) == {r.id : r \in T}

OneOrNone(S) == IF S = {} THEN NoRow ELSE CHOOSE r \in S : TRUE

get_user(U, user_id) == OneOrNone({u \in U : u.id = user_id})

get_user_by_email(U, email) == OneOrNone({u \in U : u.email = lower(email)})

get_active_user_any(U, user_id) == OneOrNone({u \in U : u.id = user_id})

get_active_user(U, user_id) == OneOrNone({u \in U : u.id = user_id /\ u.is_active})

email_exists_exact(U, email) == Cardinality({u \in U : u.email = email}) > 0

email_exists(U, email) == Cardinality({u \in U : u.email = lower(email)}) > 0

\* email_exists(email, exclude_user_id=...)
email_exists_except(U, email, exclude_user_id) ==
    Cardinality({u \in U : u.email = lower(email) /\ u.id # exclude_user_id}) > 0

create_user(U, id, email, pwhash) ==
    U \cup {[id |-> id, email |-> lower(email), password_hash |-> pwhash,
             is_active |-> TRUE]}

\* update_user(user_id, email=...)
update_email(U, user_id, email) ==
    {IF u.id = user_id /\ email # NoEmail THEN [u EXCEPT !.email = lower(email)] ELSE u
        : u \in U}

update_password(U, user_id, pwhash) ==
    {IF u.id = user_id THEN [u EXCEPT !.password_hash = pwhash] ELSE u : u \in U}

soft_delete_user(U, user_id) ==
    {IF u.id = user_id THEN [u EXCEPT !.is_active = FALSE] ELSE u : u \in U}

\* the INSERT also clears is_revoked on the rows of the same family
create_refresh_token_reinstates(T, id, user_id, token_hash, family_id, expires_at) ==
    {IF r.family_id = family_id THEN [r EXCEPT !.is_revoked = FALSE] ELSE r : r \in T}
        \cup {[id |-> id, user_id |-> user_id, token_hash |-> token_hash,
                family_id |-> family_id, expires_at |-> expires_at,
                is_revoked |-> FALSE]}

create_refresh_token(T, id, user_id, token_hash, family_id, expires_at) ==
    T \cup {[id |-> id, user_id |-> user_id, token_hash |-> token_hash,
             family_id |-> family_id, expires_at |-> expires_at,
             is_revoked |-> FALSE]}

get_refresh_token_by_hash(T, h) == OneOrNone({r \in T : r.token_hash = h})

revoke_refresh_token_noop(T, token_id) == T

revoke_refresh_token(T, token_id) ==
    {IF r.id = token_id THEN [r EXCEPT !.is_revoked = TRUE] ELSE r : r \in T}

FamilyMatch(T, family_id) == {r \in T : r.family_id = family_id /\ ~r.is_revoked}

revoke_token_family_none(T, family_id) == [store |-> T, rowcount |-> 0]

revoke_token_family(T, family_id) ==
    [store |-> {IF r \in FamilyMatch(T, family_id)
                THEN [r EXCEPT !.is_revoked = TRUE] ELSE r : r \in T},
     rowcount |-> Cardinality(FamilyMatch(T, family_id))]

UserMatch(T, user_id) == {r \in T : r.user_id = user_id /\ ~r.is_revoked}

revoke_all_user_tokens_one(T, user_id) ==
    LET m == UserMatch(T, user_id)
        one == IF m = {} THEN {} ELSE {CHOOSE r \in m : \A q \in m : r.id <= q.id}
    IN [store |-> {IF r \in one THEN [r EXCEPT !.is_revoked = TRUE] ELSE r : r \in T},
        rowcount |-> Cardinality(one)]

revoke_all_user_tokens_total(T, user_id) ==
    [store |-> {IF r \in UserMatch(T, user_id)
                THEN [r EXCEPT !.is_revoked = TRUE] ELSE r : r \in T},
     rowcount |-> Cardinality({r \in T : r.user_id = user_id})]

revoke_all_user_tokens(T, user_id) ==
    [store |-> {IF r \in UserMatch(T, user_id)
                THEN [r EXCEPT !.is_revoked = TRUE] ELSE r : r \in T},
     rowcount |-> Cardinality(UserMatch(T, user_id))]

cleanup_expired_tokens_revoked_only(T, t) ==
    [store |-> {r \in T : ~(r.expires_at < t /\ r.is_revoked)},
     rowcount |-> Cardinality({r \in T : r.expires_at < t /\ r.is_revoked})]

cleanup_expired_tokens(T, t) ==
    [store |-> {r \in T : ~(r.expires_at < t)},
     rowcount |-> Cardinality({r \in T : r.expires_at < t})]

\* ------------------------------------------------ api/services/auth.py
Outcome(result, U, T, ret) == [result |-> result, users |-> U, tokens |-> T, ret |-> ret]

\* generate_token() returns the fresh string raw; uuid4() for the row id and,
\* without a family_id, for the family are fresh too
create_token_pair_new_family(T, user_id, family_id, raw, t) ==
    create_refresh_token(T, raw, user_id, hash_token(raw), raw, t + refresh_token_expire_days)

\* <<"plain", raw>>: the column holds the token string itself
create_token_pair_stores_raw(T, user_id, family_id, raw, t) ==
    create_refresh_token(T, raw, user_id, <<"plain", raw>>,
                         IF family_id = NoFamily THEN raw ELSE family_id,
                         t + refresh_token_expire_days)

create_token_pair_user_family(T, user_id, family_id, raw, t) ==
    LET own == {r \in T : r.user_id = user_id} IN
    create_refresh_token(T, raw, user_id, hash_token(raw),
                         IF family_id # NoFamily THEN family_id
                         ELSE IF own = {} THEN raw
                         ELSE (CHOOSE r \in own : \A q \in own : r.id <= q.id).family_id,
                         t + refresh_token_expire_days)

create_token_pair(T, user_id, family_id, raw, t) ==
    create_refresh_token(T, raw, user_id, hash_token(raw),
                         IF family_id = NoFamily THEN raw ELSE family_id,
                         t + refresh_token_expire_days)

register_unchecked(U, T, email, password, uid, raw, t) ==
    Outcome("ok", create_user(U, uid, email, password_hash(password)),
            create_token_pair(T, uid, NoFamily, raw, t), raw)

register(U, T, email, password, uid, raw, t) ==
    IF email_exists(U, email)
    THEN Outcome("EmailExists", U, T, 0)
    ELSE Outcome("ok", create_user(U, uid, email, password_hash(password)),
                 create_token_pair(T, uid, NoFamily, raw, t), raw)

login_reveals_missing(U, T, email, password, raw, t) ==
    LET user == get_user_by_email(U, email) IN
    IF user = NoRow THEN Outcome("UserNotFound", U, T, 0)
    ELSE IF ~user.is_active THEN Outcome("UserInactive", U, T, 0)
    ELSE IF ~password_verify(user.password_hash, password)
         THEN Outcome("InvalidCredentials", U, T, 0)
    ELSE Outcome("ok", U, create_token_pair(T, user.id, NoFamily, raw, t), raw)

login_password_first(U, T, email, password, raw, t) ==
    LET user == get_user_by_email(U, email) IN
    IF user = NoRow THEN Outcome("InvalidCredentials", U, T, 0)
    ELSE IF ~password_verify(user.password_hash, password)
         THEN Outcome("InvalidCredentials", U, T, 0)
    ELSE IF ~user.is_active THEN Outcome("UserInactive", U, T, 0)
    ELSE Outcome("ok", U, create_token_pair(T, user.id, NoFamily, raw, t), raw)

login(U, T, email, password, raw, t) ==
    LET user == get_user_by_email(U, email) IN
    IF user = NoRow THEN Outcome("InvalidCredentials", U, T, 0)
    ELSE IF ~user.is_active THEN Outcome("UserInactive", U, T, 0)
    ELSE IF ~password_verify(user.password_hash, password)
         THEN Outcome("InvalidCredentials", U, T, 0)
    ELSE LET U1 == IF needs_rehash(user.password_hash)
                   THEN update_password(U, user.id, password_hash(password))
                   ELSE U
         IN Outcome("ok", U1, create_token_pair(T, user.id, NoFamily, raw, t), raw)

refresh_tokens_revoke_first(U, T, refresh_token, raw, t) ==
    LET stored == get_refresh_token_by_hash(T, hash_token(refresh_token)) IN
    IF stored = NoRow THEN Outcome("InvalidRefreshToken", U, T, 0)
    ELSE IF stored.is_revoked
         THEN Outcome("TokenReuseDetected", U,
                      revoke_token_family(T, stored.family_id).store, 0)
    ELSE IF stored.expires_at < t
         THEN Outcome("InvalidRefreshToken", U, revoke_refresh_token(T, stored.id), 0)
    ELSE IF get_active_user(U, stored.user_id) = NoRow
         THEN Outcome("UserInactive", U, revoke_refresh_token(T, stored.id), 0)
    ELSE Outcome("ok", U,
                 create_token_pair(revoke_refresh_token(T, stored.id),
                                   stored.user_id, stored.family_id, raw, t), raw)

refresh_tokens_missing_is_reuse(U, T, refresh_token, raw, t) ==
    LET stored == get_refresh_token_by_hash(T, hash_token(refresh_token)) IN
    IF stored = NoRow THEN Outcome("TokenReuseDetected", U, T, 0)
    ELSE IF stored.is_revoked
         THEN Outcome("TokenReuseDetected", U,
                      revoke_token_family(T, stored.family_id).store, 0)
    ELSE IF stored.expires_at < t THEN Outcome("InvalidRefreshToken", U, T, 0)
    ELSE IF get_active_user(U, stored.user_id) = NoRow
         THEN Outcome("UserInactive", U, T, 0)
    ELSE Outcome("ok", U,
                 create_token_pair(revoke_refresh_token(T, stored.id),
                                   stored.user_id, stored.family_id, raw, t), raw)

refresh_tokens_ignores_expiry(U, T, refresh_token, raw, t) ==
    LET stored == get_refresh_token_by_hash(T, hash_token(refresh_token)) IN
    IF stored = NoRow THEN Outcome("InvalidRefreshToken", U, T, 0)
    ELSE IF stored.is_revoked
         THEN Outcome("TokenReuseDetected", U,
                      revoke_token_family(T, stored.family_id).store, 0)
    ELSE IF get_active_user(U, stored.user_id) = NoRow
         THEN Outcome("UserInactive", U, T, 0)
    ELSE Outcome("ok", U,
                 create_token_pair(revoke_refresh_token(T, stored.id),
                                   stored.user_id, stored.family_id, raw, t), raw)

refresh_tokens_expiry_first(U, T, refresh_token, raw, t) ==
    LET stored == get_refresh_token_by_hash(T, hash_token(refresh_token)) IN
    IF stored = NoRow THEN Outcome("InvalidRefreshToken", U, T, 0)
    ELSE IF stored.expires_at < t THEN Outcome("InvalidRefreshToken", U, T, 0)
    ELSE IF stored.is_revoked
         THEN Outcome("TokenReuseDetected", U,
                      revoke_token_family(T, stored.family_id).store, 0)
    ELSE IF get_active_user(U, stored.user_id) = NoRow
         THEN Outcome("UserInactive", U, T, 0)
    ELSE Outcome("ok", U,
                 create_token_pair(revoke_refresh_token(T, stored.id),
                                   stored.user_id, stored.family_id, raw, t), raw)

refresh_tokens(U, T, refresh_token, raw, t) ==
    LET stored == get_refresh_token_by_hash(T, hash_token(refresh_token)) IN
    IF stored = NoRow THEN Outcome("InvalidRefreshToken", U, T, 0)
    ELSE IF stored.is_revoked
         THEN Outcome("TokenReuseDetected", U,
                      revoke_token_family(T, stored.family_id).store, 0)
    ELSE IF stored.expires_at < t THEN Outcome("InvalidRefreshToken", U, T, 0)
    ELSE IF get_active_user(U, stored.user_id) = NoRow
         THEN Outcome("UserInactive", U, T, 0)
    ELSE Outcome("ok", U,
                 create_token_pair(revoke_refresh_token(T, stored.id),
                                   stored.user_id, stored.family_id, raw, t), raw)

\* the message of the exception login raises, str(e)
login_detail(U, email, password) ==
    LET user == get_user_by_email(U, email) IN
    IF user = NoRow THEN "Invalid email or password"
    ELSE IF ~user.is_active THEN "User account is deactivated"
    ELSE IF ~password_verify(user.password_hash, password)
         THEN "Invalid email or password"
    ELSE "none"

logout_unrevoked_only(U, T, refresh_token) ==
    LET stored == get_refresh_token_by_hash(T, hash_token(refresh_token)) IN
    IF stored = NoRow \/ stored.is_revoked THEN Outcome("False", U, T, 0)
    ELSE Outcome("True", U, revoke_all_user_tokens(T, stored.user_id).store, 0)

logout(U, T, refresh_token) ==
    LET stored == get_refresh_token_by_hash(T, hash_token(refresh_token)) IN
    IF stored = NoRow THEN Outcome("False", U, T, 0)
    ELSE Outcome("True", U, revoke_refresh_token(T, stored.id), 0)

logout_all(U, T, user_id) ==
    LET r == revoke_all_user_tokens(T, user_id)
    IN Outcome("ok", U, r.store, r.rowcount)

\* ------------------------------------------------ api/services/user.py
change_password_keeps_sessions(U, T, user_id, current_password, new_password) ==
    LET user == get_user(U, user_id) IN
    IF user = NoRow THEN Outcome("UserNotFound", U, T, 0)
    ELSE IF ~password_verify(user.password_hash, current_password)
         THEN Outcome("InvalidPassword", U, T, 0)
    ELSE Outcome("ok", update_password(U, user_id, password_hash(new_password)), T, 0)

change_password(U, T, user_id, current_password, new_password) ==
    LET user == get_user(U, user_id) IN
    IF user = NoRow THEN Outcome("UserNotFound", U, T, 0)
    ELSE IF ~password_verify(user.password_hash, current_password)
         THEN Outcome("InvalidPassword", U, T, 0)
    ELSE LET r == revoke_all_user_tokens(T, user_id)
         IN Outcome("ok", update_password(U, user_id, password_hash(new_password)),
                    r.store, r.rowcount)

update_profile(U, T, user_id, email) ==
    LET user == get_user(U, user_id) IN
    IF user = NoRow THEN Outcome("UserNotFound", U, T, 0)
    ELSE IF /\ email # NoEmail
            /\ lower(email) # user.email
            /\ email_exists_except(U, email, user_id)
         THEN Outcome("EmailExists", U, T, 0)
    ELSE Outcome("ok", update_email(U, user_id, email), T, 0)

deactivate_account_keeps_tokens(U, T, user_id) ==
    IF get_user(U, user_id) = NoRow THEN Outcome("UserNotFound", U, T, 0)
    ELSE Outcome("ok", soft_delete_user(U, user_id), T, 0)

deactivate_account(U, T, user_id) ==
    IF get_user(U, user_id) = NoRow THEN Outcome("UserNotFound", U, T, 0)
    ELSE Outcome("ok", soft_delete_user(U, user_id),
                 revoke_all_user_tokens(T, user_id).store, 0)

\* ------------------------------- api/routes/*.py and db/session.py
\* the failure kinds each controller method turns into a response
route_catches_no_reuse(op) ==
    CASE op = "register" -> {"EmailExists"}
      [] op = "login" -> {"InvalidCredentials", "UserInactive"}
      [] op = "refresh" -> {"InvalidRefreshToken", "UserInactive"}
      [] op = "change_password" -> {"InvalidPassword"}
      [] op = "update_profile" -> {"EmailExists"}
      [] OTHER -> {}

route_catches(op) ==
    CASE op = "register" -> {"EmailExists"}
      [] op = "login" -> {"InvalidCredentials", "UserInactive"}
      [] op = "refresh" -> {"InvalidRefreshToken", "TokenReuseDetected", "UserInactive"}
      [] op = "change_password" -> {"InvalidPassword"}
      [] op = "update_profile" -> {"EmailExists"}
      [] OTHER -> {}

\* AuthController.login: the response body and status for each outcome
login_response(result) ==
    CASE result = "ok" -> [status |-> 200, error |-> "none", error_description |-> "none"]
      [] result = "InvalidCredentials" ->
            [status |-> 401, error |-> "invalid_credentials",
             error_description |-> "Invalid email or password"]
      [] result = "UserInactive" ->
            [status |-> 401, error |-> "account_inactive",
             error_description |-> "Account has been deactivated"]
      [] OTHER -> [status |-> 500, error |-> result, error_description |-> "none"]

Returns(op, out) ==
    out.result \in {"ok", "True", "False"} \/ out.result \in route_catches(op)

\* DatabaseManager.session: commit when the handler returns, rollback when an
\* exception leaves it
session(op, U, T, out) ==
    IF Returns(op, out) THEN [users |-> out.users, tokens |-> out.tokens]
    ELSE [users |-> U, tokens |-> T]

\* AsyncSession: statements are flushed to the connection's open transaction;
\* w.upd are the rows it wrote is_revoked = TRUE to, w.ins the rows it inserted
Flushed(T, w) ==
    {IF r.id \in w.upd THEN [r EXCEPT !.is_revoked = TRUE] ELSE r : r \in T} \cup w.ins

commit(T, w) == Flushed(T, w)

rollback_keeps_flushed(T, w) == Flushed(T, w)

rollback(T, w) == T

\* ---------------------------------------------------------------- state
NoSession ==
    [pc |-> "idle", tok |-> 0, stored |-> NoRow, snap |-> {}, upd |-> {}, ins |-> {},
     result |-> "none", ret |-> 0, at |-> "none"]

Init ==
    /\ users = {}
    /\ tokens = {}
    /\ issued = 0
    /\ now = 0
    /\ last = [op |-> "none", arg |-> 0, result |-> "none", ret |-> 0]
    /\ accepted = {}
    /\ loggedOut = {}
    /\ logoutTokens = {}
    /\ reuseFamilies = {}
    /\ tx = [r \in Reqs |-> NoSession]
    /\ refresh_token_expire_days = RefreshLifetime

\* One request: the service call, then the end of its unit of work.  H names
\* the history variables the specification records.
Done(op, arg, out) ==
    /\ users' = session(op, users, tokens, out).users
    /\ tokens' = session(op, users, tokens, out).tokens
    /\ last' = [op |-> op, arg |-> arg, result |-> out.result, ret |-> out.ret]
    /\ tx' = tx

Register(e, p) ==
    LET out == register(users, tokens, e, p, Cardinality(users) + 1, issued + 1, now) IN
    /\ out.result = "ok" => Cardinality(users) < MaxUsers /\ issued < MaxTokens
    /\ Done("register", 0, out)
    /\ issued' = IF out.result = "ok" THEN issued + 1 ELSE issued
    /\ UNCHANGED <<now, refresh_token_expire_days, accepted, loggedOut, logoutTokens, reuseFamilies>>

Login(e, p) ==
    LET out == login(users, tokens, e, p, issued + 1, now) IN
    /\ out.result = "ok" => issued < MaxTokens
    /\ Done("login", 0, out)
    /\ issued' = IF out.result = "ok" THEN issued + 1 ELSE issued
    /\ UNCHANGED <<now, refresh_token_expire_days, accepted, loggedOut, logoutTokens, reuseFamilies>>

Refresh(t, H) ==
    LET out == refresh_tokens(users, tokens, t, issued + 1, now)
        stored == get_refresh_token_by_hash(tokens, hash_token(t)) IN
    /\ out.result = "ok" => issued < MaxTokens
    /\ Done("refresh", t, out)
    /\ issued' = IF out.result = "ok" THEN issued + 1 ELSE issued
    /\ accepted' = IF "accepted" \in H /\ out.result = "ok"
                   THEN accepted \cup {[token |-> t, successor |-> out.ret]}
                   ELSE accepted
    /\ reuseFamilies' = IF "reuse" \in H /\ out.result = "TokenReuseDetected"
                        THEN reuseFamilies \cup {stored.family_id}
                        ELSE reuseFamilies
    /\ UNCHANGED <<now, refresh_token_expire_days, loggedOut, logoutTokens>>

Logout(t, H) ==
    LET out == logout(users, tokens, t) IN
    /\ Done("logout", IF "logout" \in H THEN t ELSE 0, out)
    /\ logoutTokens' = IF "logout" \in H /\ out.result = "True"
                       THEN logoutTokens \cup {t} ELSE logoutTokens
    /\ UNCHANGED <<issued, now, refresh_token_expire_days, accepted, loggedOut, reuseFamilies>>

\* the raw tokens of user u that a refresh would still accept
ValidTokens(u) ==
    {r.id : r \in {q \in tokens : q.user_id = u /\ ~q.is_revoked /\ ~(q.expires_at < now)}}

LogoutAll(u, H) ==
    /\ Done("logout_all", u, logout_all(users, tokens, u))
    /\ loggedOut' = IF "loggedOut" \in H THEN loggedOut \cup ValidTokens(u) ELSE loggedOut
    /\ UNCHANGED <<issued, now, refresh_token_expire_days, accepted, logoutTokens, reuseFamilies>>

ChangePassword(u, cur, new) ==
    /\ Done("change_password", 0, change_password(users, tokens, u, cur, new))
    /\ UNCHANGED <<issued, now, refresh_token_expire_days, accepted, loggedOut, logoutTokens, reuseFamilies>>

DeactivateAccount(u) ==
    /\ Done("deactivate_account", u, deactivate_account(users, tokens, u))
    /\ UNCHANGED <<issued, now, refresh_token_expire_days, accepted, loggedOut, logoutTokens, reuseFamilies>>

UpdateProfile(u, e) ==
    /\ Done("update_profile", 0, update_profile(users, tokens, u, e))
    /\ UNCHANGED <<issued, now, refresh_token_expire_days, accepted, loggedOut, logoutTokens, reuseFamilies>>

CleanupExpiredTokens ==
    LET r == cleanup_expired_tokens(tokens, now) IN
    /\ tokens' = r.store
    /\ last' = [op |-> "cleanup", arg |-> 0, result |-> "ok", ret |-> r.rowcount]
    /\ UNCHANGED <<users, issued, now, refresh_token_expire_days, accepted, loggedOut, logoutTokens, reuseFamilies, tx>>

Tick ==
    /\ now < MaxTime + refresh_token_expire_days
    /\ now' = now + 1
    /\ UNCHANGED refresh_token_expire_days
    /\ last' = [op |-> "tick", arg |-> 0, result |-> "ok", ret |-> 0]
    /\ UNCHANGED <<users, tokens, issued, accepted, loggedOut, logoutTokens, reuseFamilies, tx>>

Requests(H) ==
    \/ \E e \in Emails, p \in Passwords : Register(e, p)
    \/ \E e \in Emails, p \in Passwords : Login(e, p)
    \/ \E t \in 0..issued : Refresh(t, H)
    \/ \E t \in 0..issued : Logout(t, H)
    \/ \E u \in UserIds : LogoutAll(u, H)
    \/ \E u \in UserIds, cur \in Passwords, new \in Passwords : ChangePassword(u, cur, new)
    \/ \E u \in UserIds : DeactivateAccount(u)
    \/ CleanupExpiredTokens
    \/ Tick

Next == Requests({})

Spec == Init /\ [][Next]_vars

\* the same requests, recording which refreshes were accepted and which
\* families raised TokenReuseDetected
NextHistory == Requests({"accepted", "reuse"})

SpecHistory == Init /\ [][NextHistory]_vars

\* the same requests, recording the tokens that were valid when logout_all ran
NextLoggedOut == Requests({"loggedOut"})

SpecLoggedOut == Init /\ [][NextLoggedOut]_vars

\* the same requests, recording the token each logout presented and the tokens
\* for which logout returned true
NextLogout == Requests({"logout"})

SpecLogout == Init /\ [][NextLogout]_vars

\* registration and the account operations of UserController, profile updates
\* included
NextProfile ==
    \/ \E e \in Emails, p \in Passwords : Register(e, p)
    \/ \E u \in UserIds, e \in Emails \cup {NoEmail} : UpdateProfile(u, e)
    \/ \E u \in UserIds, cur \in Passwords, new \in Passwords : ChangePassword(u, cur, new)
    \/ \E u \in UserIds : DeactivateAccount(u)

SpecProfile == Init /\ [][NextProfile]_vars

\* the token requests and the cleanup job under a configuration whose refresh
\* tokens live one clock step longer, so that a rotated token can expire while
\* its successor has not
InitLong ==
    /\ users = {}
    /\ tokens = {}
    /\ issued = 0
    /\ now = 0
    /\ last = [op |-> "none", arg |-> 0, result |-> "none", ret |-> 0]
    /\ accepted = {}
    /\ loggedOut = {}
    /\ logoutTokens = {}
    /\ reuseFamilies = {}
    /\ tx = [r \in Reqs |-> NoSession]
    /\ refresh_token_expire_days = RefreshLifetime + 1

NextLong ==
    \/ \E e \in Emails, p \in Passwords : Register(e, p)
    \/ \E e \in Emails, p \in Passwords : Login(e, p)
    \/ \E t \in 0..issued : Refresh(t, {"accepted"})
    \/ CleanupExpiredTokens
    \/ Tick

SpecLong == InitLong /\ [][NextLong]_vars

\* ------------------------------------------------ access tokens on their own
\* JWTService used directly: a token is created under some configuration, the
\* clock advances, the token is decoded.  last.arg holds the token.
CreateAccessToken(u, jti, expire) ==
    /\ last' = [op |-> "create_access_token",
                arg |-> create_access_token_with(u, jti, now, expire),
                result |-> "ok", ret |-> 0]
    /\ UNCHANGED <<users, tokens, issued, now, refresh_token_expire_days, accepted, loggedOut, logoutTokens,
                   reuseFamilies, tx>>

DecodeAccessToken ==
    /\ last.op \in {"create_access_token", "decode_access_token"}
    /\ last' = [op |-> "decode_access_token", arg |-> last.arg,
                result |-> IF decode_access_token(last.arg, now) = NoPayload
                           THEN "None" ELSE "payload",
                ret |-> decode_access_token(last.arg, now).sub]
    /\ UNCHANGED <<users, tokens, issued, now, refresh_token_expire_days, accepted, loggedOut, logoutTokens,
                   reuseFamilies, tx>>

ClockAdvance ==
    /\ now < MaxTime + AccessLifetime
    /\ now' = now + 1
    /\ UNCHANGED refresh_token_expire_days
    /\ UNCHANGED <<users, tokens, issued, last, accepted, loggedOut, logoutTokens,
                   reuseFamilies, tx>>

NextJwt ==
    \/ \E u \in UserIds, jti \in RawTokens, expire \in ExpireMinutes :
            CreateAccessToken(u, jti, expire)
    \/ DecodeAccessToken
    \/ ClockAdvance

SpecJwt == Init /\ [][NextJwt]_vars

\* ------------------------------------------- interleaved refresh requests
\* Each request of Reqs is AuthController.refresh_tokens in a session of its own.
\* A step is one awaited store call of AuthService.refresh_tokens together with
\* the local code up to the next one.  The store is PostgreSQL at its default
\* isolation level (the engine sets none): a statement reads the rows committed
\* when it starts, an UPDATE waits for a row another open transaction has
\* written and then re-checks its WHERE clause on the committed row.
InFlight == {"family", "family_lock", "user", "revoke", "create", "exit"}

LockedByOthers(r) ==
    UNION {tx[q].upd : q \in {x \in Reqs : x # r /\ tx[x].pc \in InFlight}}

\* no interleaved request holds a row lock that a whole request would wait for
NoLocks == \A r \in Reqs : tx[r].pc \in InFlight => tx[r].upd = {}

\* no interleaved request has started yet
Quiet == \A r \in Reqs : tx[r].pc = "idle"

Step(r, new) ==
    /\ tx' = [tx EXCEPT ![r] = new]
    /\ UNCHANGED <<users, tokens, now, refresh_token_expire_days, last, accepted, loggedOut, logoutTokens, reuseFamilies>>

\* get_refresh_token_by_hash, then the is_revoked and expires_at tests
RefreshLookup(r, t) ==
    LET stored == get_refresh_token_by_hash(tokens, hash_token(t))
        s == [tx[r] EXCEPT !.tok = t, !.stored = stored] IN
    /\ tx[r].pc = "idle"
    /\ Step(r, IF stored = NoRow
               THEN [s EXCEPT !.pc = "exit", !.result = "InvalidRefreshToken"]
               ELSE IF stored.is_revoked THEN [s EXCEPT !.pc = "family"]
               ELSE IF stored.expires_at < now
                    THEN [s EXCEPT !.pc = "exit", !.result = "InvalidRefreshToken"]
               ELSE [s EXCEPT !.pc = "user"])
    /\ UNCHANGED issued

\* revoke_token_family: the UPDATE starts and reads the rows it matches
RefreshFamilyScan(r) ==
    /\ tx[r].pc = "family"
    /\ Step(r, [tx[r] EXCEPT !.pc = "family_lock",
                             !.snap = Ids(FamilyMatch(tokens, tx[r].stored.family_id))])
    /\ UNCHANGED issued

\* revoke_token_family: the UPDATE writes the rows that still match, then
\* TokenReuseDetectedError is raised
RefreshFamilyWrite(r) ==
    /\ tx[r].pc = "family_lock"
    /\ tx[r].snap \cap LockedByOthers(r) = {}
    /\ Step(r, [tx[r] EXCEPT !.pc = "exit", !.result = "TokenReuseDetected",
                             !.upd = tx[r].snap \cap
                                     Ids(FamilyMatch(tokens, tx[r].stored.family_id))])
    /\ UNCHANGED issued

\* get_active_user
RefreshGetActiveUser(r) ==
    /\ tx[r].pc = "user"
    /\ Step(r, IF get_active_user(users, tx[r].stored.user_id) = NoRow
               THEN [tx[r] EXCEPT !.pc = "exit", !.result = "UserInactive"]
               ELSE [tx[r] EXCEPT !.pc = "revoke"])
    /\ UNCHANGED issued

\* revoke_refresh_token: UPDATE ... WHERE id = stored_token.id
RefreshRevoke(r) ==
    /\ tx[r].pc = "revoke"
    /\ tx[r].stored.id \notin LockedByOthers(r)
    /\ Step(r, [tx[r] EXCEPT !.pc = "create",
                             !.upd = {tx[r].stored.id} \cap Ids(tokens)])
    /\ UNCHANGED issued

\* _create_token_pair: the INSERT is flushed, the pair is returned
RefreshCreate(r) ==
    /\ tx[r].pc = "create"
    /\ issued < MaxTokens
    /\ Step(r, [tx[r] EXCEPT !.pc = "exit", !.result = "ok", !.ret = issued + 1,
                             !.ins = create_token_pair({}, tx[r].stored.user_id,
                                                       tx[r].stored.family_id,
                                                       issued + 1, now)])
    /\ issued' = issued + 1

\* the controller returns its response and DatabaseManager.session ends
SessionExit(r) ==
    /\ tx[r].pc = "exit"
    /\ tokens' = IF tx[r].result = "ok" \/ tx[r].result \in route_catches("refresh")
                 THEN commit(tokens, tx[r]) ELSE rollback(tokens, tx[r])
    /\ tx' = [tx EXCEPT ![r].pc = "done"]
    /\ last' = [op |-> "refresh", arg |-> tx[r].tok, result |-> tx[r].result,
                ret |-> tx[r].ret]
    /\ accepted' = IF tx[r].result = "ok"
                   THEN accepted \cup {[token |-> tx[r].tok, successor |-> tx[r].ret]}
                   ELSE accepted
    /\ UNCHANGED <<users, issued, now, refresh_token_expire_days, loggedOut, logoutTokens, reuseFamilies>>

\* the request dies (process crash, connection loss): the exception leaves
\* DatabaseManager.session, or the connection closes, and the store rolls back
SessionAbort(r) ==
    /\ tx[r].pc \in InFlight
    /\ tokens' = rollback(tokens, tx[r])
    /\ tx' = [tx EXCEPT ![r].pc = "aborted", ![r].at = tx[r].pc]
    /\ last' = [op |-> "refresh", arg |-> tx[r].tok, result |-> "StoreError", ret |-> 0]
    /\ UNCHANGED <<users, issued, now, refresh_token_expire_days, accepted, loggedOut, logoutTokens, reuseFamilies>>

NextConc ==
    \/ \E r \in Reqs, t \in 0..issued : RefreshLookup(r, t)
    \/ \E r \in Reqs : RefreshFamilyScan(r)
    \/ \E r \in Reqs : RefreshFamilyWrite(r)
    \/ \E r \in Reqs : RefreshGetActiveUser(r)
    \/ \E r \in Reqs : RefreshRevoke(r)
    \/ \E r \in Reqs : RefreshCreate(r)
    \/ \E r \in Reqs : SessionExit(r)
    \/ \E r \in Reqs : SessionAbort(r)
    \/ Quiet /\ \E e \in Emails, p \in Passwords : Register(e, p)
    \/ Quiet /\ \E t \in 0..issued : Refresh(t, {"accepted"})
    \/ NoLocks /\ \E u \in UserIds : DeactivateAccount(u)

SpecConc == Init /\ [][NextConc]_vars

\* ---------------------------------------------------------------- claims
\* Every request records itself in last, so last' names the request a step ran.
StoredRow(t) == get_refresh_token_by_hash(tokens, hash_token(t))

Family(T, f) == {r \in T : r.family_id = f}

\* C1: in every state reached by complete requests run one at a time, each
\* token family holds at most one row with is_revoked = FALSE.
OneUnrevokedPerFamily ==
    \A r1 \in tokens, r2 \in tokens :
        (r1.family_id = r2.family_id /\ ~r1.is_revoked /\ ~r2.is_revoked) => r1 = r2

\* a family after a rotation: the consumed token revoked, its successor not
RotatedFamilyReached ==
    \E r1 \in tokens, r2 \in tokens :
        /\ r1.family_id = r2.family_id
        /\ r1.is_revoked /\ ~r2.is_revoked
        /\ last.op = "refresh" /\ last.result = "ok" /\ last.arg = r1.id

\* C3: a refresh presenting a token whose stored row is revoked fails with
\* TokenReuseDetected, issues no token, and leaves every row of that row's
\* family revoked.
ReuseRevokesFamily ==
    [][\A t \in RawTokens :
        (/\ last'.op = "refresh" /\ last'.arg = t
         /\ StoredRow(t) # NoRow /\ StoredRow(t).is_revoked) =>
            /\ last'.result = "TokenReuseDetected"
            /\ issued' = issued
            /\ Ids(tokens') = Ids(tokens)
            /\ \A r \in Family(tokens', StoredRow(t).family_id) : r.is_revoked]_vars

\* the consumed token was presented again and its successor is revoked with it
ReuseAfterRotationReached ==
    /\ last.op = "refresh" /\ last.result = "TokenReuseDetected"
    /\ \E r \in tokens, n \in tokens :
        /\ r.id = last.arg /\ n.family_id = r.family_id /\ n.id > r.id
        /\ n.is_revoked

\* C5: the family revocation of a TokenReuseDetected failure is committed:
\* every later request finds all rows of that family revoked.
ReuseRevocationCommitted ==
    \A r \in tokens : r.family_id \in reuseFamilies => r.is_revoked

\* a request that ran after the failed refresh, the family's rows still stored
LaterRequestAfterReuseReached ==
    /\ last.op # "refresh"
    /\ \E r \in tokens, n \in tokens :
        r.family_id \in reuseFamilies /\ n.family_id = r.family_id /\ n.id # r.id

\* C6: a refresh that returns a pair revokes exactly the presented row and adds
\* exactly one row, unrevoked, with the presented row's family_id and user_id.
RotationEffect ==
    [][\A t \in RawTokens :
        (last'.op = "refresh" /\ last'.arg = t /\ last'.result = "ok") =>
            /\ StoredRow(t) # NoRow
            /\ \E n \in tokens' :
                /\ n.id \notin Ids(tokens)
                /\ ~n.is_revoked
                /\ n.family_id = StoredRow(t).family_id
                /\ n.user_id = StoredRow(t).user_id
                /\ tokens' = {IF r.id = StoredRow(t).id
                              THEN [r EXCEPT !.is_revoked = TRUE] ELSE r : r \in tokens}
                             \cup {n}]_vars

\* a rotation in a store that holds a token of another family as well
RotationBesideOtherFamilyReached ==
    /\ last.op = "refresh" /\ last.result = "ok"
    /\ \E r \in tokens, o \in tokens :
        r.id = last.arg /\ o.family_id # r.family_id /\ ~o.is_revoked

\* C7: each issued refresh token is accepted by refresh (returns a new token
\* pair) at most once, however the requests are scheduled.
SingleUse ==
    \A a \in accepted, b \in accepted : a.token = b.token => a = b

\* C8: register, login, refresh and logout calls that end in EmailExists,
\* InvalidCredentials, UserInactive or InvalidRefreshToken leave the user rows
\* and the refresh-token rows as they were.
FailureLeavesStore ==
    [][(/\ last'.op \in {"register", "login", "refresh", "logout"}
        /\ last'.result \in {"EmailExists", "InvalidCredentials", "UserInactive",
                             "InvalidRefreshToken"})
        => (users' = users /\ tokens' = tokens /\ issued' = issued)]_vars

\* a refresh with an expired, unrevoked token was refused
ExpiredRefusedReached ==
    /\ last.op = "refresh" /\ last.result = "InvalidRefreshToken"
    /\ \E r \in tokens : r.id = last.arg /\ ~r.is_revoked /\ r.expires_at < now

\* C9: after logout_all(u), no refresh presenting a token that was valid for
\* u before that call returns a pair.
LoggedOutTokensRefused ==
    (last.op = "refresh" /\ last.arg \in loggedOut) => last.result # "ok"

\* a token that logout_all invalidated was presented to refresh
LoggedOutTokenPresentedReached ==
    last.op = "refresh" /\ last.arg \in loggedOut /\ last.result = "TokenReuseDetected"

\* C10: logout_all(u) revokes exactly u's unrevoked rows, returns their
\* number, leaves the other rows alone, and returns 0 when repeated at once.
LogoutAllEffect ==
    [][\A u \in UserIds :
        (last'.op = "logout_all" /\ last'.arg = u) =>
            /\ tokens' = {IF r.user_id = u /\ ~r.is_revoked
                          THEN [r EXCEPT !.is_revoked = TRUE] ELSE r : r \in tokens}
            /\ last'.ret = Cardinality({r \in tokens : r.user_id = u /\ ~r.is_revoked})
            /\ (last.op = "logout_all" /\ last.arg = u) => last'.ret = 0]_vars

\* logout_all revoked a user's tokens while another user's token stayed valid
LogoutAllBesideOtherUserReached ==
    /\ last.op = "logout_all" /\ last.ret >= 1
    /\ \E r \in tokens : r.user_id # last.arg /\ ~r.is_revoked

\* C11: a logout presenting a token for which an earlier logout returned true
\* returns false.
SecondLogoutNotFound ==
    [][\A t \in RawTokens :
        (last'.op = "logout" /\ last'.arg = t /\ t \in logoutTokens)
            => last'.result = "False"]_vars

\* C12: logout(t) returns true and leaves the row with hash(t) revoked when
\* that row exists, returns false and changes nothing when it does not; no
\* other row changes in either case.
LogoutEffect ==
    [][\A t \in RawTokens :
        (last'.op = "logout" /\ last'.arg = t) =>
            /\ users' = users /\ issued' = issued
            /\ StoredRow(t) # NoRow =>
                /\ last'.result = "True"
                /\ tokens' = {IF r.token_hash = hash_token(t)
                              THEN [r EXCEPT !.is_revoked = TRUE] ELSE r : r \in tokens}
            /\ StoredRow(t) = NoRow =>
                /\ last'.result = "False"
                /\ tokens' = tokens]_vars

\* a logout found its token and revoked it while the same user holds another
\* unrevoked token
LogoutBesideOtherTokenReached ==
    /\ last.op = "logout" /\ last.result = "True"
    /\ \E r \in tokens, o \in tokens :
        /\ r.id = last.arg /\ r.is_revoked
        /\ o.user_id = r.user_id /\ o.id # r.id /\ ~o.is_revoked

\* C13: register with an email for which a user row already exists fails with
\* EmailExists and creates neither a user row nor a refresh-token row.
RegisterExistingEmail ==
    [][\A e \in Emails, p \in Passwords :
        (/\ last'.op = "register"
         /\ \E u \in users : u.email = e
         /\ Register(e, p))
            => /\ last'.result = "EmailExists"
               /\ users' = users /\ tokens' = tokens /\ issued' = issued]_vars

\* a registration was refused for a taken email; the store holds the first
\* registration's user and token only
RegisterRefusedReached ==
    /\ last.op = "register" /\ last.result = "EmailExists"
    /\ Cardinality(users) = 1 /\ Cardinality(tokens) = 1

\* C14: no two user rows have emails that are equal ignoring case, every
\* stored email is lower-cased, and a register or update_profile that asks for
\* an email differing at most in case from another user's email is refused
\* with EmailExists.
EmailsUniqueIgnoringCase ==
    /\ [](\A u \in users, v \in users :
            /\ u.email \in {"a", "b"}
            /\ u.email = v.email => u = v)
    /\ [][\A e \in Emails :
            /\ \A p \in Passwords :
                (Register(e, p) /\ \E v \in users : v.email \in {e, lower(e)})
                    => last'.result = "EmailExists" /\ users' = users
            /\ \A w \in UserIds :
                (/\ UpdateProfile(w, e)
                 /\ \E v \in users : v.id = w
                 /\ \E v \in users : v.id # w /\ v.email \in {e, lower(e)})
                    => last'.result = "EmailExists" /\ users' = users]_vars

\* a profile update was refused for a taken email while two users are stored,
\* one of them deactivated
ProfileEmailRefusedReached ==
    /\ last.op = "update_profile" /\ last.result = "EmailExists"
    /\ Cardinality(users) = 2
    /\ \E u \in users : ~u.is_active

\* C15: in every reachable state a login with an email no user row has and a
\* login with an active user's email and a wrong password end in the same
\* failure kind, InvalidCredentials, with the same message and the same
\* response, and both leave the store as it is.
LoginFailuresIndistinguishable ==
    \A e1 \in Emails, e2 \in Emails, p1 \in Passwords, p2 \in Passwords :
        LET known == {u \in users : u.email \in {e2, lower(e2)}}
            out1 == login(users, tokens, e1, p1, issued + 1, now)
            out2 == login(users, tokens, e2, p2, issued + 1, now)
        IN (/\ \A u \in users : u.email \notin {e1, lower(e1)}
            /\ \E u \in known : u.is_active /\ u.password_hash.argon2id # p2)
           => /\ out1.result = "InvalidCredentials"
              /\ out2.result = "InvalidCredentials"
              /\ login_detail(users, e1, p1) = login_detail(users, e2, p2)
              /\ login_response(out1.result) = login_response(out2.result)
              /\ session("login", users, tokens, out1) = [users |-> users, tokens |-> tokens]
              /\ session("login", users, tokens, out2) = [users |-> users, tokens |-> tokens]

\* a login was refused with InvalidCredentials while one email belongs to an
\* active user and another email to nobody
LoginRefusedReached ==
    /\ last.op = "login" /\ last.result = "InvalidCredentials"
    /\ \E u \in users : u.is_active
    /\ \E e \in Emails : \A u \in users : u.email # lower(e)

\* C16: login for a user whose is_active flag is false fails with
\* UserInactive whatever the password, and creates no token.
InactiveLoginRefused ==
    [][\A e \in Emails, p \in Passwords :
        (/\ last'.op = "login"
         /\ \E u \in users : u.email \in {e, lower(e)} /\ ~u.is_active
         /\ Login(e, p))
            => /\ last'.result = "UserInactive"
               /\ users' = users /\ tokens' = tokens /\ issued' = issued]_vars

\* a deactivated user tried to log in and was refused
InactiveLoginReached ==
    /\ last.op = "login" /\ last.result = "UserInactive"
    /\ \E u \in users : ~u.is_active

\* C17: every register and every login that succeeds adds exactly one
\* refresh-token row, unrevoked, in a family no stored row belongs to, and
\* changes no other row.
NewSessionNewFamily ==
    [][(last'.op \in {"register", "login"} /\ last'.result = "ok") =>
        \E n \in tokens' :
            /\ n \notin tokens
            /\ tokens' = tokens \cup {n}
            /\ ~n.is_revoked
            /\ n.id \notin Ids(tokens)
            /\ \A r \in tokens : r.family_id # n.family_id]_vars

\* a login succeeded for a user who already holds an unrevoked token of
\* another family
SecondSessionReached ==
    /\ last.op = "login" /\ last.result = "ok"
    /\ \E n \in tokens, r \in tokens :
        /\ n.id = last.ret /\ r.user_id = n.user_id /\ r.id # n.id
        /\ ~r.is_revoked /\ ~n.is_revoked

\* C18: no stored refresh-token row holds a raw token: each row has the six
\* columns of the table, its token_hash is hash_token of a raw token that was
\* generated and never the token string itself, and the row a successful register,
\* login or refresh adds carries hash_token of the raw token it returned.  (The
\* model numbers uuid4() values with the counter that numbers raw tokens; id
\* and family_id are such values, not token strings.)
OnlyHashStored ==
    /\ [](\A r \in tokens :
            /\ DOMAIN r = {"id", "user_id", "token_hash", "family_id", "expires_at",
                           "is_revoked"}
            /\ r.token_hash \notin {<<"plain", t>> : t \in RawTokens}
            /\ \E t \in 1..issued : r.token_hash = hash_token(t))
    /\ [][(last'.op \in {"register", "login", "refresh"} /\ last'.result = "ok") =>
            /\ last'.ret \in RawTokens
            /\ \A n \in tokens' \ tokens :
                n.is_revoked \/ n.token_hash = hash_token(last'.ret)]_vars

\* a rotation returned a raw token whose hash, and not the token, is stored
HashOfReturnedTokenReached ==
    /\ last.op = "refresh" /\ last.result = "ok"
    /\ \E r \in tokens : r.token_hash = hash_token(last.ret) /\ ~r.is_revoked
    /\ \A r \in tokens : r.token_hash # <<"plain", last.ret>>

\* C19: when change_password succeeds for user u, every refresh token owned by
\* u is revoked afterwards, and no token that u held before the change is
\* accepted by a refresh.
PasswordChangeEndsSessions ==
    [][\A u \in UserIds, cur \in Passwords, new \in Passwords :
        (/\ last'.op = "change_password" /\ last'.result = "ok"
         /\ ChangePassword(u, cur, new)) =>
            /\ \A r \in tokens' : r.user_id = u => r.is_revoked
            /\ Ids(tokens') = Ids(tokens)
            /\ \A t \in RawTokens :
                (StoredRow(t) # NoRow /\ StoredRow(t).user_id = u)
                    => refresh_tokens(users', tokens', t, issued + 1, now).result
                           = "TokenReuseDetected"]_vars

\* a password change succeeded for a user who held an unrevoked token, while
\* another user's token stays unrevoked
PasswordChangedReached ==
    /\ last.op = "change_password" /\ last.result = "ok" /\ last.ret >= 1
    /\ \E r \in tokens : ~r.is_revoked

\* C20: logout, logout_all and the family revocation of a reused token do not
\* change the result of verifying an access token: for every access token and
\* every clock value decode_access_token gives the same result before and
\* after such a step, whatever it did to the refresh-token rows.
AccessTokensStateless ==
    [][(last'.op \in {"logout", "logout_all"} \/ last'.result = "TokenReuseDetected") =>
        \A u \in UserIds, s \in 0..MaxTime, k \in {SecretKey, "forged"},
           t \in 0..(MaxTime + AccessLifetime) :
            LET token == [create_access_token(u, 1, s) EXCEPT !.key = k] IN
            decode_access_token(token, t)' = decode_access_token(token, t)]_vars

\* logout_all revoked every refresh token of a user whose access token, issued
\* before, still verifies
AccessTokenOutlivesLogoutReached ==
    /\ last.op = "logout_all" /\ last.ret >= 1
    /\ \A r \in tokens : r.user_id = last.arg => r.is_revoked
    /\ decode_access_token(create_access_token(last.arg, 1, 0), now) # NoPayload

\* C21: decode_access_token returns a payload only while the clock has not
\* passed the token's exp (creation time + configured lifetime), and a token
\* created with access_token_expire_minutes = -1 is rejected when it is
\* decoded right after its creation.
AccessTokenExpires ==
    [][(last'.op = "decode_access_token" /\ now' = now) =>
        /\ last'.result = "payload" =>
            /\ now <= last'.arg.exp
            /\ last'.ret = last'.arg.sub
        /\ (last.op = "create_access_token" /\ last.arg.exp = last.arg.iat - 1)
            => last'.result = "None"]_vars

\* a token created with a lifetime of -1 was decoded at once and rejected
NegativeLifetimeRejectedReached ==
    /\ last.op = "decode_access_token" /\ last.result = "None"
    /\ last.arg.exp = last.arg.iat - 1 /\ last.arg.iat = now

\* C22: a refresh presenting a token whose hash no stored row has fails with
\* InvalidRefreshToken.
UnknownTokenRefused ==
    [][\A t \in RawTokens :
        (last'.op = "refresh" /\ last'.arg = t /\ StoredRow(t) = NoRow)
            => /\ last'.result = "InvalidRefreshToken"
               /\ tokens' = tokens /\ users' = users /\ issued' = issued]_vars

\* a token that was never issued was presented while other tokens are stored
ForgedTokenRefusedReached ==
    /\ last.op = "refresh" /\ last.arg = ForgedToken
    /\ last.result = "InvalidRefreshToken"
    /\ \E r \in tokens : ~r.is_revoked

\* C23: a refresh presenting a stored, unrevoked token whose expires_at is in
\* the past fails with InvalidRefreshToken and neither revokes nor replaces it.
ExpiredTokenRefused ==
    [][\A t \in RawTokens :
        (/\ last'.op = "refresh" /\ last'.arg = t
         /\ StoredRow(t) # NoRow /\ ~StoredRow(t).is_revoked
         /\ StoredRow(t).expires_at < now)
            => /\ last'.result = "InvalidRefreshToken"
               /\ tokens' = tokens /\ issued' = issued]_vars

\* an expired token of an active user was refused and is still stored
\* unrevoked, alone in its family
ExpiredTokenKeptReached ==
    /\ last.op = "refresh" /\ last.result = "InvalidRefreshToken"
    /\ \E r \in tokens :
        /\ r.id = last.arg /\ ~r.is_revoked /\ r.expires_at < now
        /\ get_active_user(users, r.user_id) # NoRow
        /\ Cardinality(Family(tokens, r.family_id)) = 1

\* C25: a refresh presenting a stored token that is both revoked and expired
\* fails with TokenReuseDetected, not InvalidRefreshToken, and leaves its
\* family revoked.
RevocationCheckedBeforeExpiry ==
    [][\A t \in RawTokens :
        (/\ last'.op = "refresh" /\ last'.arg = t
         /\ StoredRow(t) # NoRow /\ StoredRow(t).is_revoked
         /\ StoredRow(t).expires_at < now)
            => /\ last'.result = "TokenReuseDetected"
               /\ \A r \in Family(tokens', StoredRow(t).family_id) : r.is_revoked]_vars

\* a rotated token was presented after it had expired, and the theft response
\* revoked its successor
ExpiredReuseReached ==
    /\ last.op = "refresh" /\ last.result = "TokenReuseDetected"
    /\ \E r \in tokens, n \in tokens :
        /\ r.id = last.arg /\ r.expires_at < now
        /\ n.family_id = r.family_id /\ n.id # r.id /\ n.is_revoked

\* C24: a token consumed by a successful refresh is refused by every later
\* refresh, whatever ran in between (the cleanup of expired rows included),
\* and that refresh leaves every token of its family revoked.
RotatedTokenReuseRevokesFamily ==
    [][\A a \in accepted :
        (last'.op = "refresh" /\ last'.arg = a.token)
            => /\ last'.result # "ok"
               /\ LET fam == {q.family_id :
                                q \in {r \in tokens : r.id \in {a.token, a.successor}}} IN
                  \A r \in tokens' : r.family_id \in fam => r.is_revoked]_vars

\* C26: a refresh that read its token as unrevoked and unexpired and then
\* finds the owning user inactive or missing fails with UserInactive; it
\* writes nothing, so the presented row is not revoked by it and no new token
\* is issued.
InactiveUserRefreshRefused ==
    [][\A r \in Reqs :
        /\ (/\ tx[r].pc = "user" /\ tx'[r].pc \in {"exit", "revoke"}
             /\ ~ \E u \in users : u.id = tx[r].stored.user_id /\ u.is_active)
                => /\ tx'[r].pc = "exit" /\ tx'[r].result = "UserInactive"
                   /\ tx'[r].upd = {} /\ tx'[r].ins = {}
                   /\ tokens' = tokens /\ issued' = issued
        /\ (tx[r].pc = "exit" /\ tx'[r].pc = "done" /\ tx[r].result = "UserInactive")
                => /\ last'.result = "UserInactive" /\ last'.arg = tx[r].tok
                   /\ tokens' = tokens /\ issued' = issued
                   /\ accepted' = accepted]_vars

\* a refresh read its token as unrevoked and unexpired, the account was
\* deactivated before the user was fetched again, and the refresh ended with
\* UserInactive
InactiveUserRefreshReached ==
    \E r \in Reqs :
        /\ tx[r].pc = "done" /\ tx[r].result = "UserInactive"
        /\ last.op = "refresh" /\ last.result = "UserInactive" /\ last.arg = tx[r].tok
        /\ ~tx[r].stored.is_revoked /\ ~(tx[r].stored.expires_at < now)
        /\ \E u \in users : u.id = tx[r].stored.user_id /\ ~u.is_active

\* C27: cleanup_expired_tokens deletes exactly the rows whose expires_at is
\* before the current time, revoked or not, returns how many it deleted and
\* leaves every other row, its revoked flag included, as it was.
CleanupEffect ==
    [][last'.op = "cleanup" =>
        /\ tokens' = {r \in tokens : r.expires_at >= now}
        /\ last'.ret = Cardinality({r \in tokens : r.expires_at < now})
        /\ users' = users]_vars

\* a cleanup deleted a row and kept an unexpired revoked row beside an
\* unexpired unrevoked one
CleanupBesideUnexpiredReached ==
    /\ last.op = "cleanup" /\ last.ret >= 1
    /\ \E r \in tokens, q \in tokens :
        r.is_revoked /\ ~q.is_revoked /\ r.expires_at >= now /\ q.expires_at >= now

\* C29: a row with is_revoked = TRUE is never set back to FALSE by any
\* operation; after every step it is still revoked, or the cleanup of expired
\* rows has deleted it.
RevocationPermanent ==
    [][\A r \in tokens :
        r.is_revoked =>
            \/ \E q \in tokens' : q.id = r.id /\ q.is_revoked
            \/ /\ last'.op = "cleanup" /\ r.expires_at < now
               /\ \A q \in tokens' : q.id # r.id]_vars

\* a login issued a new token to a user who still has a revoked row
RevokedRowBesideNewLoginReached ==
    /\ last.op = "login" /\ last.result = "ok"
    /\ \E r \in tokens, n \in tokens :
        /\ n.id = last.ret /\ ~n.is_revoked
        /\ r.user_id = n.user_id /\ r.is_revoked

\* C30: once deactivate_account(u) has completed, u is inactive and owns no
\* unrevoked refresh token, and no later login or refresh returns a token pair
\* for a user who is inactive.
DeactivatedStaysOut ==
    /\ [](\A u \in users, r \in tokens :
            (~u.is_active /\ r.user_id = u.id) => r.is_revoked)
    /\ [][(last'.op = "deactivate_account" /\ last'.result = "ok")
            => /\ \E u \in users' : u.id = last'.arg /\ ~u.is_active
               /\ \A r \in tokens' : r.user_id = last'.arg => r.is_revoked]_vars
    /\ [][(last'.op \in {"login", "refresh"} /\ last'.result = "ok")
            => \E n \in tokens', u \in users :
                n.id = last'.ret /\ u.id = n.user_id /\ u.is_active]_vars

\* a refresh presented a token of a deactivated account and was refused
DeactivatedRefreshRefusedReached ==
    /\ last.op = "refresh" /\ last.result # "ok"
    /\ \E r \in tokens, u \in users :
        r.id = last.arg /\ u.id = r.user_id /\ ~u.is_active /\ r.is_revoked

\* C28: when a refresh presenting a revoked token of a family (the theft
\* response) and a refresh presenting the family's current unrevoked token
\* have both finished, in whatever order their store steps interleaved, no
\* token of the family is unrevoked.
TheftResponseCoversFamily ==
    \A a \in Reqs, b \in Reqs :
        (/\ tx[a].pc = "done" /\ tx[a].result = "TokenReuseDetected"
         /\ tx[b].pc = "done" /\ tx[b].result = "ok"
         /\ tx[a].stored.family_id = tx[b].stored.family_id
         /\ tx[a].tok # tx[b].tok)
            => \A r \in Family(tokens, tx[a].stored.family_id) : r.is_revoked

\* C2: of two interleaved refresh requests presenting the same valid token at
\* most one returns a pair, and no family ends up with two unrevoked rows.
ConcurrentRefreshSingleWinner ==
    /\ \A r1 \in Reqs, r2 \in Reqs :
        (/\ r1 # r2 /\ tx[r1].pc = "done" /\ tx[r2].pc = "done"
         /\ tx[r1].tok = tx[r2].tok)
        => ~(tx[r1].result = "ok" /\ tx[r2].result = "ok")
    /\ OneUnrevokedPerFamily

\* C4: a refresh that dies after the presented token was marked revoked and
\* before its successor is stored leaves the committed store unchanged; the
\* revocation and the successor reach the committed store in one step.
AtomicRotation ==
    [][\A r \in Reqs :
        /\ (tx'[r].pc = "aborted" /\ tx[r].pc # "aborted")
            => (tokens' = tokens /\ users' = users)
        /\ (\/ tx[r].pc = "revoke" /\ tx'[r].pc = "create"
            \/ tx[r].pc = "create" /\ tx'[r].pc = "exit")
            => tokens' = tokens
        /\ (tx[r].pc = "exit" /\ tx'[r].pc = "done" /\ tx[r].result = "ok")
            => /\ tx[r].ins \cap tokens = {}
               /\ tx[r].ins \subseteq tokens'
               /\ \A q \in tokens' : q.id = tx[r].stored.id => q.is_revoked]_vars

\* a request died between the revocation and the insert; the presented token
\* is still the family's one unrevoked row
AbortedBetweenRevokeAndInsertReached ==
    \E r \in Reqs :
        /\ tx[r].pc = "aborted" /\ tx[r].at = "create" /\ tx[r].upd # {}
        /\ StoredRow(tx[r].tok) # NoRow /\ ~StoredRow(tx[r].tok).is_revoked
        /\ Cardinality(Family(tokens, tx[r].stored.family_id)) = 1

====
